---- MODULE Spec2Model ----
(***************************************************************************)
(* Session search of the history viewer: the text extractors, the          *)
(* MessageSearchIndex engine (src/src/utils/searchIndex.ts) and the        *)
(* session-search slice of the zustand store (src/src/store/useAppStore.ts)*)
(*                                                                         *)
(* A JavaScript string is modelled as a sequence of one-character strings, *)
(* <<"a", "b">> for "ab"; an absent property is the value Null.            *)
(***************************************************************************)
EXTENDS Integers, Sequences, FiniteSets, TLC

(***************************************************************************)
(* Strings                                                                 *)
(***************************************************************************)

\* An absent / non-string property (undefined or null in the source).
Null == <<"null">>

\* A toLowerCase that leaves every character as it is.
LowerCharIdentity(c) == c

\* String.prototype.toLowerCase on one character of the modelled alphabet.
LowerChar(c) ==
  CASE c = "A" -> "a"
    [] c = "B" -> "b"
    [] c = "X" -> "x"
    [] c = "T" -> "t"
    [] OTHER -> c

toLowerCase(s) == [i \in 1..Len(s) |-> LowerChar(s[i])]

\* The white space String.prototype.trim removes.
IsWhiteSpace(c) == c = " "

RECURSIVE TrimStart(_)
TrimStart(s) ==
  IF s = <<>> THEN <<>>
  ELSE IF IsWhiteSpace(Head(s)) THEN TrimStart(Tail(s)) ELSE s

RECURSIVE TrimEnd(_)
TrimEnd(s) ==
  IF s = <<>> THEN <<>>
  ELSE IF IsWhiteSpace(s[Len(s)]) THEN TrimEnd(SubSeq(s, 1, Len(s) - 1)) ELSE s

trim(s) == TrimEnd(TrimStart(s))

\* Array.prototype.join(" ") on an array of strings.
RECURSIVE JoinSpace(_)
JoinSpace(parts) ==
  IF parts = <<>> THEN <<>>
  ELSE IF Len(parts) = 1 THEN parts[1]
  ELSE parts[1] \o <<" ">> \o JoinSpace(Tail(parts))

\* text has query at the 0-based position pos.
OccursAt(text, query, pos) ==
  /\ pos >= 0
  /\ pos + Len(query) <= Len(text)
  /\ \A k \in 1..Len(query) : text[pos + k] = query[k]

\* String.prototype.indexOf(query, pos): the least 0-based position >= pos
\* where query occurs in text, -1 when there is none.
indexOf(text, query, pos) ==
  LET hits == {p \in pos..(Len(text) - Len(query)) : OccursAt(text, query, p)}
  IN  IF hits = {} THEN -1
      ELSE CHOOSE p \in hits : \A r \in hits : p <= r

\* The while loop of findAllMatchesInText from position pos with count so far.
RECURSIVE ScanFrom(_, _, _, _)
ScanFrom(lowerText, lowerQuery, pos, count) ==
  LET found == indexOf(lowerText, lowerQuery, pos)
  IN  IF found = -1 THEN count
      ELSE ScanFrom(lowerText, lowerQuery, found + Len(lowerQuery), count + 1)

\* A scan that advances by one character after a hit (counts overlaps).
FindAllMatchesOverlapping(text, query) ==
  LET lowerText == toLowerCase(text)
      lowerQuery == toLowerCase(query)
  IN  Cardinality({p \in 0..Len(lowerText) : OccursAt(lowerText, lowerQuery, p)})

\* MessageSearchIndex.findAllMatchesInText(text, query).
findAllMatchesInText(text, query) ==
  ScanFrom(toLowerCase(text), toLowerCase(query), 0, 0)

(***************************************************************************)
(* Messages and the text extractors                                        *)
(***************************************************************************)

NoValue == [kind |-> "null"]
\* A property whose read raises (the malformed shape the try blocks of the
\* extractors are there for).
Raises == [kind |-> "raises"]
StringValue(s) == [kind |-> "string", value |-> s]
ArrayValue(items) == [kind |-> "array", items |-> items]

\* A content block: an object with optional string properties.
Block(type, text, thinking, id, toolUseId) ==
  [kind |-> "record", type |-> type, text |-> text, thinking |-> thinking,
   id |-> id, tool_use_id |-> toolUseId]

ToolUse(id, name) == [kind |-> "record", id |-> id, name |-> name]

ToolResult(stdout, stderr, content) ==
  [kind |-> "record", stdout |-> stdout, stderr |-> stderr, content |-> content]

Message(uuid, content, toolUse, toolUseResult) ==
  [uuid |-> uuid, content |-> content, toolUse |-> toolUse,
   toolUseResult |-> toolUseResult]

\* hasStringProperty(obj, key) for a property value v = obj[key].
hasStringProperty(v) == v # Null

\* JavaScript truthiness of message.content / message.toolUseResult.
Truthy(v) ==
  /\ v.kind # "null"
  /\ v.kind = "string" => v.value # <<>>

\* What one element of an array-shaped content pushes onto parts.
ContentItemParts(item) ==
  IF item.kind = "string" THEN <<item.value>>
  ELSE IF item.kind = "record"
  THEN (IF hasStringProperty(item.text) THEN <<item.text>> ELSE <<>>)
       \o (IF hasStringProperty(item.thinking) THEN <<item.thinking>> ELSE <<>>)
  ELSE <<>>

RECURSIVE ContentItemsParts(_)
ContentItemsParts(items) ==
  IF items = <<>> THEN <<>>
  ELSE ContentItemParts(Head(items)) \o ContentItemsParts(Tail(items))

ContentParts(message) ==
  IF ~Truthy(message.content) THEN <<>>
  ELSE IF message.content.kind = "string" THEN <<message.content.value>>
  ELSE IF message.content.kind = "array"
  THEN ContentItemsParts(message.content.items)
  ELSE <<>>

\* A content extractor that also pushes the id of the toolUse record.
ToolNameAndIdParts(message) ==
  IF message.toolUse.kind = "record" /\ hasStringProperty(message.toolUse.name)
  THEN <<message.toolUse.name>>
       \o (IF hasStringProperty(message.toolUse.id)
           THEN <<message.toolUse.id>> ELSE <<>>)
  ELSE <<>>

ToolNameParts(message) ==
  IF message.toolUse.kind = "record" /\ hasStringProperty(message.toolUse.name)
  THEN <<message.toolUse.name>>
  ELSE <<>>

ToolResultParts(message) ==
  LET result == message.toolUseResult
  IN  IF ~Truthy(result) THEN <<>>
      ELSE IF result.kind = "string" THEN <<result.value>>
      ELSE IF result.kind = "record"
      THEN (IF hasStringProperty(result.stdout) THEN <<result.stdout>> ELSE <<>>)
           \o (IF hasStringProperty(result.stderr) THEN <<result.stderr>> ELSE <<>>)
           \o (IF hasStringProperty(result.content) THEN <<result.content>> ELSE <<>>)
      ELSE <<>>

\* extractSearchableText(message): the text of the content field.
\* The parts pushed before a read raises stay in parts: the catch block
\* only logs, and the join comes after it.
extractSearchableText(message) ==
  JoinSpace(
    IF message.content.kind = "raises" THEN <<>>
    ELSE ContentParts(message)
         \o (IF message.toolUse.kind = "raises" THEN <<>>
             ELSE ToolNameParts(message)
                  \o (IF message.toolUseResult.kind = "raises" THEN <<>>
                      ELSE ToolResultParts(message))))

\* An id extractor that does not look at the type of the element.
ToolIdItemPartsAnyType(item) ==
  IF item.kind = "record"
  THEN (IF hasStringProperty(item.id) THEN <<item.id>> ELSE <<>>)
       \o (IF hasStringProperty(item.tool_use_id) THEN <<item.tool_use_id>> ELSE <<>>)
  ELSE <<>>

\* What one element of an array-shaped content pushes onto ids.
ToolIdItemParts(item) ==
  IF item.kind = "record"
  THEN (IF item.type = "tool_use" /\ hasStringProperty(item.id)
        THEN <<item.id>> ELSE <<>>)
       \o (IF item.type = "tool_result" /\ hasStringProperty(item.tool_use_id)
           THEN <<item.tool_use_id>> ELSE <<>>)
  ELSE <<>>

RECURSIVE ToolIdItemsParts(_)
ToolIdItemsParts(items) ==
  IF items = <<>> THEN <<>>
  ELSE ToolIdItemParts(Head(items)) \o ToolIdItemsParts(Tail(items))

\* The array ids that extractToolIds(message) collects.
ToolIdParts(message) ==
  IF message.content.kind = "raises" THEN <<>>
  ELSE (IF message.content.kind = "array"
        THEN ToolIdItemsParts(message.content.items) ELSE <<>>)
       \o (IF message.toolUse.kind = "record"
              /\ hasStringProperty(message.toolUse.id)
           THEN <<message.toolUse.id>> ELSE <<>>)

\* extractToolIds(message): the text of the toolId field.
extractToolIds(message) == JoinSpace(ToolIdParts(message))

\* A search that counts the occurrences in the content text for both filters.
ExtractFieldAlwaysContent(message, filterType) == extractSearchableText(message)

\* The extractor search and build use for a filter type.
ExtractField(message, filterType) ==
  IF filterType = "toolId" THEN extractToolIds(message)
  ELSE extractSearchableText(message)

SearchFilterType == {"content", "toolId"}

(***************************************************************************)
(* The inverted index (FlexSearch.Document, tokenize: "forward")           *)
(*                                                                         *)
(* The library is not part of the repository.  It is modelled by what the  *)
(* configuration of createFlexSearchIndex asks of it: the indexed text is  *)
(* split into tokens at every character that is neither a letter nor a    *)
(* digit, every prefix of a token is a key, a query is split the same way  *)
(* and a document is a hit when every term of the query is a key of it;    *)
(* hits come in insertion order, at most limit of them.                    *)
(***************************************************************************)

\* The characters at which the encoder splits (neither letter nor digit).
IsSeparator(c) == c \in {" ", "_", "-", "."}

\* The tokens of s: the maximal runs of non-separator characters.
RECURSIVE SplitTokens(_, _)
SplitTokens(s, current) ==
  IF s = <<>> THEN (IF current = <<>> THEN {} ELSE {current})
  ELSE IF IsSeparator(Head(s))
  THEN (IF current = <<>> THEN {} ELSE {current}) \cup SplitTokens(Tail(s), <<>>)
  ELSE SplitTokens(Tail(s), Append(current, Head(s)))

Tokens(s) == SplitTokens(s, <<>>)

\* The key test of a tokenizer that indexes every substring of a token.
IsSubstringOfToken(p, w) ==
  \E i \in 1..(Len(w) - Len(p) + 1) : SubSeq(w, i, i + Len(p) - 1) = p

\* The key test of tokenize: "forward": p is a prefix of the token w.
IsPrefix(p, w) == Len(p) <= Len(w) /\ SubSeq(w, 1, Len(p)) = p

\* A stored document {uuid, messageIndex, text} is a hit for the query.
DocMatches(doc, lowerQuery) ==
  LET terms == Tokens(lowerQuery)
      keys == Tokens(doc.text)
  IN  /\ terms # {}
      /\ \A t \in terms : \E w \in keys : IsPrefix(t, w)

\* createFlexSearchIndex(): an empty index; the documents in insertion order.
createFlexSearchIndex == <<>>

RECURSIVE RemoveDoc(_, _)
RemoveDoc(index, uuid) ==
  IF index = <<>> THEN <<>>
  ELSE IF Head(index).uuid = uuid THEN RemoveDoc(Tail(index), uuid)
  ELSE <<Head(index)>> \o RemoveDoc(Tail(index), uuid)

\* index.add(doc): a document whose id is already stored replaces the old one.
IndexAdd(index, doc) == Append(RemoveDoc(index, doc.uuid), doc)

RECURSIVE HitUuids(_, _)
HitUuids(index, lowerQuery) ==
  IF index = <<>> THEN <<>>
  ELSE (IF DocMatches(Head(index), lowerQuery) THEN <<Head(index).uuid>> ELSE <<>>)
       \o HitUuids(Tail(index), lowerQuery)

\* limit: 1000 of index.search.
SearchLimit == 1000

\* An index.search that ignores its limit option.
IndexSearchUnlimited(index, lowerQuery, limit) == HitUuids(index, lowerQuery)

\* index.search(lowerQuery, {limit, enrich}): the first limit hits.
IndexSearch(index, lowerQuery, limit) ==
  LET hits == HitUuids(index, lowerQuery)
  IN  IF Len(hits) <= limit THEN hits ELSE SubSeq(hits, 1, limit)

\* index.search(lowerQuery, {limit: 1000, enrich: true}) followed by the
\* collection of the uuids into matchedUuids (a Set: insertion order, no
\* duplicates).
FlexSearch(index, lowerQuery) == IndexSearch(index, lowerQuery, SearchLimit)

(***************************************************************************)
(* MessageSearchIndex                                                      *)
(***************************************************************************)

\* The state of an instance after the constructor, and after clear().
ClearedIndex ==
  [contentIndex |-> createFlexSearchIndex,
   toolIdIndex  |-> createFlexSearchIndex,
   messageMap   |-> <<>>,
   messages     |-> <<>>,
   isBuilt      |-> FALSE]

\* Map.prototype.set(uuid, index) on messageMap, a function uuid -> index.
MapSet(map, uuid, index) ==
  [u \in (DOMAIN map) \cup {uuid} |-> IF u = uuid THEN index ELSE map[u]]

\* The body of the forEach of build for the message at the 0-based index.
BuildStep(eng, message, index) ==
  LET text == extractSearchableText(message)
      toolIds == extractToolIds(message)
  IN  [eng EXCEPT
         !.contentIndex =
            IF trim(text) # <<>>
            THEN IndexAdd(@, [uuid |-> message.uuid, messageIndex |-> index,
                              text |-> toLowerCase(text)])
            ELSE @,
         !.toolIdIndex =
            IF trim(toolIds) # <<>>
            THEN IndexAdd(@, [uuid |-> message.uuid, messageIndex |-> index,
                              text |-> toLowerCase(toolIds)])
            ELSE @,
         !.messageMap = MapSet(@, message.uuid, index)]

RECURSIVE BuildFrom(_, _, _)
BuildFrom(eng, msgs, index) ==
  IF index >= Len(msgs) THEN eng
  ELSE BuildFrom(BuildStep(eng, msgs[index + 1], index), msgs, index + 1)

\* A clear that leaves the instance as it is.
ClearDoesNothing(eng) == eng

\* MessageSearchIndex.clear() on the instance eng.
clear(eng) == ClearedIndex

\* A build that keeps the indexes and the uuid map of the build before.
BuildStartKeepingIndexes(eng, msgs) == [eng EXCEPT !.messages = msgs]

\* A build that does not keep the snapshot it indexes.
BuildStartWithoutSnapshot(eng, msgs) == clear(eng)

\* The first two statements of build on the instance eng: this.clear(),
\* then the assignment of the snapshot.
BuildStart(eng, msgs) == [clear(eng) EXCEPT !.messages = msgs]

\* MessageSearchIndex.build(messages) on the instance eng: clear, keep the
\* snapshot, index it.
BuildOn(eng, msgs) ==
  [BuildFrom(BuildStart(eng, msgs), msgs, 0) EXCEPT !.isBuilt = TRUE]

\* build(messages) on an instance fresh from the constructor.
build(msgs) == BuildOn(ClearedIndex, msgs)

\* A comparator that orders nothing: the sort keeps the order of the
\* candidates and of their occurrences.
CompareMatchesEqual(a, b) == 0

\* The comparator of allMatches.sort with the match index ascending.
CompareMatchIndexAscending(a, b) ==
  IF a.messageIndex # b.messageIndex
  THEN b.messageIndex - a.messageIndex
  ELSE a.matchIndex - b.matchIndex

\* The comparator of allMatches.sort with the oldest message first.
CompareOldestFirst(a, b) ==
  IF a.messageIndex # b.messageIndex
  THEN a.messageIndex - b.messageIndex
  ELSE b.matchIndex - a.matchIndex

\* The comparator of allMatches.sort: a negative number puts a before b.
CompareMatches(a, b) ==
  IF a.messageIndex # b.messageIndex
  THEN b.messageIndex - a.messageIndex
  ELSE b.matchIndex - a.matchIndex

\* x inserted into the sorted sequence: before the first element it must
\* precede, after the elements it compares equal to (the sort is stable).
RECURSIVE InsertSorted(_, _)
InsertSorted(sorted, x) ==
  IF sorted = <<>> THEN <<x>>
  ELSE IF CompareMatches(x, Head(sorted)) < 0 THEN <<x>> \o sorted
  ELSE <<Head(sorted)>> \o InsertSorted(Tail(sorted), x)

RECURSIVE SortMatches(_)
SortMatches(list) ==
  IF list = <<>> THEN <<>>
  ELSE InsertSorted(SortMatches(SubSeq(list, 1, Len(list) - 1)), list[Len(list)])

\* A loop that pushes one record too few: "for (i = 1; i < matchCount; i++)".
MatchRecordsFromOne(uuid, messageIndex, matchCount) ==
  [i \in 1..(matchCount - 1) |->
     [messageUuid |-> uuid, messageIndex |-> messageIndex,
      matchIndex |-> i, matchCount |-> matchCount]]

\* The records the loop "for (i = 0; i < matchCount; i++)" pushes.
MatchRecords(uuid, messageIndex, matchCount) ==
  [i \in 1..matchCount |->
     [messageUuid |-> uuid, messageIndex |-> messageIndex,
      matchIndex |-> i - 1, matchCount |-> matchCount]]

\* A variant that trusts the hit of the index: a candidate always yields at
\* least one match.
MatchesOfUuidTrustingIndex(eng, uuid, lowerQuery, filterType) ==
  LET messageIndex == eng.messageMap[uuid]
      messageText == ExtractField(eng.messages[messageIndex + 1], filterType)
      exact == ScanFrom(toLowerCase(messageText), lowerQuery, 0, 0)
  IN  MatchRecords(uuid, messageIndex, IF exact = 0 THEN 1 ELSE exact)

\* A forEach body that reports a candidate it cannot resolve as one match
\* at messageIndex -1.
MatchesOfUuidReportsUnresolved(eng, uuid, lowerQuery, filterType) ==
  IF uuid \notin DOMAIN eng.messageMap THEN MatchRecords(uuid, -1, 1)
  ELSE LET messageIndex == eng.messageMap[uuid]
       IN  IF messageIndex + 1 \notin DOMAIN eng.messages
           THEN MatchRecords(uuid, -1, 1)
           ELSE LET messageText == ExtractField(eng.messages[messageIndex + 1],
                                                filterType)
                    matchCount == findAllMatchesInText(messageText, lowerQuery)
                IN  MatchRecords(uuid, messageIndex, matchCount)

\* The body of matchedUuids.forEach of search for one candidate uuid.
MatchesOfUuid(eng, uuid, lowerQuery, filterType) ==
  IF uuid \notin DOMAIN eng.messageMap THEN <<>>
  ELSE LET messageIndex == eng.messageMap[uuid]
       IN  IF messageIndex + 1 \notin DOMAIN eng.messages THEN <<>>
           ELSE LET messageText == ExtractField(eng.messages[messageIndex + 1],
                                                filterType)
                    matchCount == findAllMatchesInText(messageText, lowerQuery)
                IN  MatchRecords(uuid, messageIndex, matchCount)

RECURSIVE AllMatches(_, _, _, _)
AllMatches(eng, uuids, lowerQuery, filterType) ==
  IF uuids = <<>> THEN <<>>
  ELSE MatchesOfUuid(eng, Head(uuids), lowerQuery, filterType)
       \o AllMatches(eng, Tail(uuids), lowerQuery, filterType)

\* A search that answers a blank query with every message of the snapshot.
SearchInBlankListsAll(eng, query, filterType) ==
  IF ~eng.isBuilt THEN <<>>
  ELSE IF trim(query) = <<>>
  THEN SortMatches([i \in 1..Len(eng.messages) |->
                      [messageUuid |-> eng.messages[i].uuid, messageIndex |-> i - 1,
                       matchIndex |-> 0, matchCount |-> 1]])
  ELSE LET lowerQuery == toLowerCase(query)
           index == IF filterType = "toolId" THEN eng.toolIdIndex
                    ELSE eng.contentIndex
           matchedUuids == FlexSearch(index, lowerQuery)
       IN  SortMatches(AllMatches(eng, matchedUuids, lowerQuery, filterType))

\* A search that deletes from the uuid map the entries it has looked up.
EngineAfterSearchForgetsMap(eng, query, filterType) ==
  IF ~eng.isBuilt \/ trim(query) = <<>> THEN eng
  ELSE [eng EXCEPT !.messageMap = <<>>]

\* The instance after search(query, filterType): the method assigns to no
\* field of the instance and calls nothing that does.
EngineAfterSearch(eng, query, filterType) == eng

\* MessageSearchIndex.search(query, filterType) on the instance state eng.
SearchIn(eng, query, filterType) ==
  IF ~eng.isBuilt \/ trim(query) = <<>> THEN <<>>
  ELSE LET lowerQuery == toLowerCase(query)
           index == IF filterType = "toolId" THEN eng.toolIdIndex
                    ELSE eng.contentIndex
           matchedUuids == FlexSearch(index, lowerQuery)
       IN  SortMatches(AllMatches(eng, matchedUuids, lowerQuery, filterType))

(***************************************************************************)
(* The store (useAppStore): the session-search slice                       *)
(***************************************************************************)

VARIABLES
  messages,            \* store.messages: the loaded session
  selectedSession,     \* store.selectedSession (NoSession for null)
  sessionSearch,       \* store.sessionSearch: SearchState
  messageSearchIndex,  \* the singleton MessageSearchIndex instance
  pending,             \* invoke("load_session_messages") calls in flight, per session
  last,                \* the last store action, its argument, the SearchState before it
                       \* and the SearchStates it published before its final one
  searchCall,          \* the last direct call of MessageSearchIndex.search and its result
  scan,                \* one application of findAllMatchesInText: text, query, count
  snapshotOrigin       \* which load completion built the present index: "none"
                       \* (not built since the last clear), "assigner" (the one
                       \* that last assigned a non-empty messages list), "other"

vars == <<messages, selectedSession, sessionSearch, messageSearchIndex,
          pending, last, searchCall, scan, snapshotOrigin>>

\* createEmptySearchState(filterType).
createEmptySearchState(filterType) ==
  [query |-> <<>>,
   matches |-> <<>>,
   currentMatchIndex |-> -1,
   isSearching |-> FALSE,
   filterType |-> filterType,
   results |-> <<>>]

\* The JavaScript remainder a % b for b > 0: the sign of the dividend.
JsRem(a, b) == IF a >= 0 THEN a % b ELSE -((-a) % b)

\* A filter that keeps every result of the index.
KeepAllIndexes(searchResults, msgs) == searchResults

\* The filter of setSessionSearchQuery on the results of the index.
KeepValidIndexes(searchResults, msgs) ==
  SelectSeq(searchResults,
            LAMBDA r : r.messageIndex >= 0 /\ r.messageIndex < Len(msgs))

\* The legacy results list of setSessionSearchQuery: the uuids of the
\* messages the matches point at, the undefined ones left out.
ResultsOf(matches, msgs) ==
  LET defined == SelectSeq(matches,
                           LAMBDA m : m.messageIndex + 1 \in DOMAIN msgs)
  IN  [i \in 1..Len(defined) |-> msgs[defined[i].messageIndex + 1].uuid]

\* A setSessionSearchQuery that keeps the cursor when the query is unchanged.
SetQueryKeepingCursor(ss, msgs, eng, query) ==
  IF trim(query) = <<>> THEN createEmptySearchState(ss.filterType)
  ELSE LET matches == KeepValidIndexes(SearchIn(eng, query, ss.filterType), msgs)
       IN  [query |-> query,
            matches |-> matches,
            currentMatchIndex |->
              IF Len(matches) = 0 THEN -1
              ELSE IF query = ss.query /\ ss.currentMatchIndex \in 0..(Len(matches) - 1)
              THEN ss.currentMatchIndex ELSE 0,
            isSearching |-> FALSE,
            filterType |-> ss.filterType,
            results |-> ResultsOf(matches, msgs)]

\* A setSessionSearchQuery whose blank branch only empties the query.
SetQueryBlankKeepsMatches(ss, msgs, eng, query) ==
  IF trim(query) = <<>> THEN [ss EXCEPT !.query = <<>>]
  ELSE LET matches == KeepValidIndexes(SearchIn(eng, query, ss.filterType), msgs)
       IN  [query |-> query,
            matches |-> matches,
            currentMatchIndex |-> IF Len(matches) > 0 THEN 0 ELSE -1,
            isSearching |-> FALSE,
            filterType |-> ss.filterType,
            results |-> ResultsOf(matches, msgs)]

\* A setSessionSearchQuery that moves the cursor to 0 whether or not there
\* are matches.
SetQueryCursorAlwaysZero(ss, msgs, eng, query) ==
  IF trim(query) = <<>> THEN createEmptySearchState(ss.filterType)
  ELSE LET matches == KeepValidIndexes(SearchIn(eng, query, ss.filterType), msgs)
       IN  [query |-> query,
            matches |-> matches,
            currentMatchIndex |-> 0,
            isSearching |-> FALSE,
            filterType |-> ss.filterType,
            results |-> ResultsOf(matches, msgs)]

\* setSessionSearchQuery(query) reaches the call of searchMessagesFromIndex:
\* the blank branch returns before it.
SetQueryConsultsIndex(query) == trim(query) # <<>>

\* The SearchState setSessionSearchQuery(query) publishes before it calls
\* searchMessagesFromIndex: the new query and isSearching true over the
\* matches and the cursor of the state it found.
SetQuerySearchingState(ss, query) ==
  [ss EXCEPT !.query = query, !.isSearching = TRUE]

\* A setSessionSearchQuery whose final write leaves isSearching as the
\* intermediate state set it.
SetQueryLeavesSearching(ss, msgs, eng, query) ==
  IF trim(query) = <<>> THEN createEmptySearchState(ss.filterType)
  ELSE LET matches == KeepValidIndexes(SearchIn(eng, query, ss.filterType), msgs)
       IN  [query |-> query,
            matches |-> matches,
            currentMatchIndex |-> IF Len(matches) > 0 THEN 0 ELSE -1,
            isSearching |-> SetQuerySearchingState(ss, query).isSearching,
            filterType |-> ss.filterType,
            results |-> ResultsOf(matches, msgs)]

\* The SearchState setSessionSearchQuery(query) leaves, from the SearchState
\* ss, the store's messages msgs and the index eng (the state published in
\* between, with isSearching true, is overwritten before the action returns).
SetQueryState(ss, msgs, eng, query) ==
  IF trim(query) = <<>> THEN createEmptySearchState(ss.filterType)
  ELSE LET searchResults == SearchIn(eng, query, ss.filterType)
           matches == KeepValidIndexes(searchResults, msgs)
       IN  [query |-> query,
            matches |-> matches,
            currentMatchIndex |-> IF Len(matches) > 0 THEN 0 ELSE -1,
            isSearching |-> FALSE,
            filterType |-> ss.filterType,
            results |-> ResultsOf(matches, msgs)]

\* A goToNextMatch that stops at the end instead of wrapping.
NextMatchNoWrap(ss) ==
  IF Len(ss.matches) = 0 THEN ss
  ELSE [ss EXCEPT !.currentMatchIndex = ss.currentMatchIndex + 1]

\* The SearchState goToNextMatch leaves.
NextMatchState(ss) ==
  IF Len(ss.matches) = 0 THEN ss
  ELSE [ss EXCEPT !.currentMatchIndex =
                     JsRem(ss.currentMatchIndex + 1, Len(ss.matches))]

\* A goToPrevMatch that wraps only below zero.
PrevMatchLateWrap(ss) ==
  IF Len(ss.matches) = 0 THEN ss
  ELSE [ss EXCEPT !.currentMatchIndex =
                     IF ss.currentMatchIndex < 0 THEN Len(ss.matches) - 1
                     ELSE ss.currentMatchIndex - 1]

\* A goToPrevMatch that stays on the first match instead of wrapping.
PrevMatchStopsAtFirst(ss) ==
  IF Len(ss.matches) = 0 THEN ss
  ELSE [ss EXCEPT !.currentMatchIndex =
                     IF ss.currentMatchIndex <= 0 THEN 0
                     ELSE ss.currentMatchIndex - 1]

\* The SearchState goToPrevMatch leaves.
PrevMatchState(ss) ==
  IF Len(ss.matches) = 0 THEN ss
  ELSE LET totalMatches == Len(ss.matches)
       IN  [ss EXCEPT !.currentMatchIndex =
                         IF ss.currentMatchIndex <= 0 THEN totalMatches - 1
                         ELSE ss.currentMatchIndex - 1]

\* A goToMatchIndex whose upper bound test is off by one.
MatchIndexOffByOne(ss, index) ==
  IF index < 0 \/ index > Len(ss.matches) THEN ss
  ELSE [ss EXCEPT !.currentMatchIndex = index]

\* A goToMatchIndex that does not test the lower bound.
MatchIndexNoLowerBound(ss, index) ==
  IF index >= Len(ss.matches) THEN ss
  ELSE [ss EXCEPT !.currentMatchIndex = index]

\* The SearchState goToMatchIndex(index) leaves.
MatchIndexState(ss, index) ==
  IF index < 0 \/ index >= Len(ss.matches) THEN ss
  ELSE [ss EXCEPT !.currentMatchIndex = index]

\* A setSessionSearchQuery without the catch block: the state published
\* before the search stays.
SetQueryErrorUncaught(ss, query) ==
  [ss EXCEPT !.query = query, !.isSearching = TRUE]

\* The SearchState the catch block of setSessionSearchQuery(query) leaves
\* when searchMessagesFromIndex raises.
SetQueryErrorState(ss, query) ==
  [query |-> query, matches |-> <<>>, currentMatchIndex |-> -1,
   isSearching |-> FALSE, filterType |-> ss.filterType, results |-> <<>>]

\* A clearSessionSearch that goes back to the initial filter type.
ClearResetsFilter(ss) == createEmptySearchState("content")

\* The SearchState clearSessionSearch leaves.
ClearSearchState(ss) == createEmptySearchState(ss.filterType)

\* A setSearchFilterType that returns early when the filter is the current one.
FilterTypeKeptWhenSame(ss, filterType) ==
  IF filterType = ss.filterType THEN ss ELSE createEmptySearchState(filterType)

\* The SearchState setSearchFilterType(filterType) leaves.
FilterTypeState(ss, filterType) == createEmptySearchState(filterType)

\* A selectSession that resets the whole SearchState, filter type included.
SelectSessionResetsFilter(ss) == createEmptySearchState("content")

\* The sessionSearch object selectSession writes before it loads.
SelectSessionSearchState(ss) ==
  [query |-> <<>>, matches |-> <<>>, currentMatchIndex |-> -1,
   results |-> <<>>, isSearching |-> FALSE, filterType |-> ss.filterType]

(***************************************************************************)
(* Inputs                                                                  *)
(***************************************************************************)

\* The session files of the backend: what load_session_messages returns,
\* after the sidechain filter, for each session of the project.
Sessions == {"s1", "s2", "s3"}
NoSession == "none"

Uuid(session, i) == <<session, i>>

SessionFile(session) ==
  IF session = "s1"
  THEN << Message(Uuid("s1", 0), StringValue(<<"a", "b", " ", "a", "B">>),
                  NoValue, NoValue),
          Message(Uuid("s1", 1),
                  ArrayValue(<< Block("text", <<"x", "a", "b">>, Null, Null, Null),
                                Block("tool_use", Null, Null, <<"t", "_", "1">>, Null) >>),
                  ToolUse(<<"t", "_", "1">>, <<"a", "b">>), NoValue),
          Message(Uuid("s1", 2), StringValue(<<"a", "a", "a", "a">>),
                  NoValue, StringValue(<<"b", " ", "a">>)) >>
  ELSE IF session = "s2"
  THEN << Message(Uuid("s2", 0), StringValue(<<"a", "b">>), NoValue,
                  ToolResult(<<"b", " ", "a">>, Null, Null)),
          Message(Uuid("s2", 1),
                  ArrayValue(<< Block("tool_result", Null, Null, Null, <<"a", "b">>) >>),
                  NoValue, NoValue) >>
  ELSE IF session = "s3"
  THEN <<>>
  ELSE IF session = "hello"
  THEN << Message(Uuid("hello", 0),
                  StringValue(<<"h", "e", "l", "l", "o", " ", "w", "o", "r", "l", "d">>),
                  NoValue, NoValue),
          Message(Uuid("hello", 1),
                  StringValue(<<"s", "a", "y", " ", "h", "e", "l", "l", "o">>),
                  NoValue, NoValue),
          Message(Uuid("hello", 2),
                  StringValue(<<"g", "o", "o", "d", "b", "y", "e">>),
                  NoValue, NoValue) >>
  ELSE IF session = "tool"
  THEN << Message(Uuid("tool", 0), NoValue,
                  ToolUse(<<"t", "u", "_", "4", "2">>, <<"B", "a", "s", "h">>),
                  NoValue) >>
  ELSE IF session = "bad"
  THEN << Message(Uuid("bad", 0), StringValue(<<"h", "e", "l", "l", "o">>),
                  Raises, StringValue(<<"h", "e", "l", "l", "o">>)),
          Message(Uuid("bad", 1), StringValue(<<"h", "e", "l", "l", "o">>),
                  NoValue, NoValue) >>
  ELSE << Message(Uuid("ids", 0),
                  ArrayValue(<< Block("tool_result", <<"t", "8">>, Null,
                                      <<"t", "9">>, <<"t", "2">>),
                                Block("tool_use", Null, <<"t", "0">>,
                                      <<"t", "1">>, <<"t", "9">>),
                                Block("text", <<"t", "3">>, Null, <<"t", "9">>,
                                      <<"t", "9">>),
                                StringValue(<<"t", "4">>) >>),
                  ToolUse(<<"t", "5">>, <<"t", "6">>),
                  StringValue(<<"t", "7">>)),
          Message(Uuid("ids", 1), StringValue(<<"t", "1">>), NoValue, NoValue) >>

\* Four more session files: three text messages; one message whose only
\* searchable data is its toolUse record; a message with every kind of
\* content element, a toolUse record and a toolUseResult, followed by a
\* message with string content; and a message whose toolUse raises when it
\* is read, between a content and a toolUseResult that hold "hello",
\* followed by a well-formed message.
ScenarioSessions == {"hello", "tool", "ids", "bad"}

AllSessions == Sessions \cup ScenarioSessions

\* The query strings the viewer submits to the store.
StoreQueries ==
  { <<>>, <<" ">>, <<"a", "b">>, <<"A", "B">>, <<"a", "a">>, <<"a", " ", "b">>,
    <<"b">> }

\* At most MaxPending load_session_messages calls are in flight at once.
MaxPending == 2

PendingCount ==
  pending["s1"] + pending["s2"] + pending["s3"] + pending["hello"] + pending["tool"]
    + pending["ids"] + pending["bad"]

NoOp ==
  [op |-> "init", query |-> <<>>, index |-> 0, filterType |-> "content",
   session |-> NoSession, searched |-> FALSE, raised |-> FALSE,
   submitted |-> FALSE, published |-> <<>>,
   wasBuilt |-> FALSE, cleared |-> FALSE, before |-> "none",
   pre |-> createEmptySearchState("content")]

NoSearchCall == [called |-> FALSE, query |-> <<>>, filterType |-> "content",
                 result |-> <<>>, kept |-> TRUE]

NoScan == [text |-> <<>>, query |-> <<>>, count |-> -1]

(***************************************************************************)
(* The store's actions                                                     *)
(***************************************************************************)

Init ==
  /\ messages = <<>>
  /\ selectedSession = NoSession
  /\ sessionSearch = createEmptySearchState("content")
  /\ messageSearchIndex = ClearedIndex
  /\ pending = [s \in AllSessions |-> 0]
  /\ last = NoOp
  /\ searchCall = NoSearchCall
  /\ scan = NoScan
  /\ snapshotOrigin = "none"

\* selectProject(project), up to its first await.
selectProject ==
  /\ selectedSession' = NoSession
  /\ messages' = <<>>
  /\ last' = [NoOp EXCEPT !.op = "selectProject", !.pre = sessionSearch]
  /\ UNCHANGED <<sessionSearch, messageSearchIndex, pending, searchCall, scan,
                 snapshotOrigin>>

\* selectSession(session), up to the await of load_session_messages.
selectSession(session) ==
  /\ PendingCount < MaxPending
  /\ messageSearchIndex' = clear(messageSearchIndex)
  /\ selectedSession' = session
  /\ messages' = <<>>
  /\ sessionSearch' = SelectSessionSearchState(sessionSearch)
  /\ pending' = [pending EXCEPT ![session] = @ + 1]
  /\ last' = [NoOp EXCEPT !.op = "selectSession", !.session = session,
                          !.pre = sessionSearch]
  /\ snapshotOrigin' = "none"
  /\ UNCHANGED <<searchCall, scan>>

\* selectSession(session) after load_session_messages has resolved.
loadSessionMessagesResolved(session) ==
  /\ pending[session] > 0
  /\ LET filteredMessages == SessionFile(session)
     IN  /\ messageSearchIndex' = BuildOn(messageSearchIndex, filteredMessages)
         /\ messages' = filteredMessages
         /\ snapshotOrigin' =
              IF Len(filteredMessages) > 0 THEN "assigner" ELSE "other"
  /\ pending' = [pending EXCEPT ![session] = @ - 1]
  /\ last' = [NoOp EXCEPT !.op = "loadResolved", !.session = session,
                          !.pre = sessionSearch]
  /\ UNCHANGED <<selectedSession, sessionSearch, searchCall, scan>>

\* selectSession(session) after load_session_messages has rejected.
loadSessionMessagesRejected(session) ==
  /\ pending[session] > 0
  /\ pending' = [pending EXCEPT ![session] = @ - 1]
  /\ last' = [NoOp EXCEPT !.op = "loadRejected", !.session = session,
                          !.pre = sessionSearch]
  /\ UNCHANGED <<messages, selectedSession, sessionSearch, messageSearchIndex,
                 searchCall, scan, snapshotOrigin>>

setSessionSearchQuery(query) ==
  /\ sessionSearch' = SetQueryState(sessionSearch, messages, messageSearchIndex, query)
  /\ last' = [NoOp EXCEPT !.op = "setSessionSearchQuery", !.query = query,
                          !.searched = SetQueryConsultsIndex(query),
                          !.published =
                             IF SetQueryConsultsIndex(query)
                             THEN <<SetQuerySearchingState(sessionSearch, query)>>
                             ELSE <<>>,
                          !.pre = sessionSearch]
  /\ messageSearchIndex' =
       IF SetQueryConsultsIndex(query)
       THEN EngineAfterSearch(messageSearchIndex, query, sessionSearch.filterType)
       ELSE messageSearchIndex
  /\ UNCHANGED <<messages, selectedSession, pending, searchCall,
                 scan, snapshotOrigin>>

\* setSessionSearchQuery(query) when searchMessagesFromIndex raises: the
\* non-blank path up to the call, then the catch block.
setSessionSearchQueryRaised(query) ==
  /\ SetQueryConsultsIndex(query)
  /\ sessionSearch' = SetQueryErrorState(sessionSearch, query)
  /\ last' = [NoOp EXCEPT !.op = "setSessionSearchQuery", !.query = query,
                          !.searched = TRUE, !.raised = TRUE,
                          !.published =
                             <<SetQuerySearchingState(sessionSearch, query)>>,
                          !.pre = sessionSearch]
  /\ UNCHANGED <<messages, selectedSession, messageSearchIndex, pending,
                 searchCall, scan, snapshotOrigin>>

goToNextMatch ==
  /\ sessionSearch' = NextMatchState(sessionSearch)
  /\ last' = [NoOp EXCEPT !.op = "goToNextMatch", !.pre = sessionSearch]
  /\ UNCHANGED <<messages, selectedSession, messageSearchIndex, pending,
                 searchCall, scan, snapshotOrigin>>

goToPrevMatch ==
  /\ sessionSearch' = PrevMatchState(sessionSearch)
  /\ last' = [NoOp EXCEPT !.op = "goToPrevMatch", !.pre = sessionSearch]
  /\ UNCHANGED <<messages, selectedSession, messageSearchIndex, pending,
                 searchCall, scan, snapshotOrigin>>

goToMatchIndex(index) ==
  /\ sessionSearch' = MatchIndexState(sessionSearch, index)
  /\ last' = [NoOp EXCEPT !.op = "goToMatchIndex", !.index = index,
                          !.pre = sessionSearch]
  /\ UNCHANGED <<messages, selectedSession, messageSearchIndex, pending,
                 searchCall, scan, snapshotOrigin>>

clearSessionSearch ==
  /\ sessionSearch' = ClearSearchState(sessionSearch)
  /\ last' = [NoOp EXCEPT !.op = "clearSessionSearch", !.pre = sessionSearch]
  /\ UNCHANGED <<messages, selectedSession, messageSearchIndex, pending,
                 searchCall, scan, snapshotOrigin>>

setSearchFilterType(filterType) ==
  /\ sessionSearch' = FilterTypeState(sessionSearch, filterType)
  /\ last' = [NoOp EXCEPT !.op = "setSearchFilterType", !.filterType = filterType,
                          !.pre = sessionSearch]
  /\ UNCHANGED <<messages, selectedSession, messageSearchIndex, pending,
                 searchCall, scan, snapshotOrigin>>

Next ==
  \/ selectProject
  \/ \E session \in Sessions : selectSession(session)
  \/ \E session \in Sessions : loadSessionMessagesResolved(session)
  \/ \E session \in Sessions : loadSessionMessagesRejected(session)
  \/ \E query \in StoreQueries : setSessionSearchQuery(query)
  \/ \E query \in StoreQueries : setSessionSearchQueryRaised(query)
  \/ goToNextMatch
  \/ goToPrevMatch
  \/ \E index \in -1..(Len(sessionSearch.matches) + 1) : goToMatchIndex(index)
  \/ clearSessionSearch
  \/ \E filterType \in SearchFilterType : setSearchFilterType(filterType)

Spec == Init /\ [][Next]_vars

(***************************************************************************)
(* The store over the two scenario sessions                                *)
(***************************************************************************)

\* The query strings submitted in the scenarios.
ScenarioQueries ==
  { <<>>, <<"h", "e", "l", "l", "o">>, <<"t", "u", "_", "4", "2">>,
    <<"B", "a", "s", "h">>, <<"t">> }

\* SEARCH_MIN_CHARS of the message viewer.
SEARCH_MIN_CHARS == 2

\* An effect that hands every deferred value to onSearchChange.
EffectSubmitsEverything(deferredSearchQuery) == TRUE

\* The effect of the message viewer on deferredSearchQuery calls
\* onSearchChange: for the empty string and for a value of at least
\* SEARCH_MIN_CHARS characters.
EffectSubmits(deferredSearchQuery) ==
  \/ Len(deferredSearchQuery) = 0
  \/ ~(Len(deferredSearchQuery) < SEARCH_MIN_CHARS)

\* The effect of the message viewer that runs when deferredSearchQuery has
\* changed; onSearchChange is the store's setSessionSearchQuery.
deferredSearchQueryEffect(deferredSearchQuery) ==
  /\ sessionSearch' =
       IF EffectSubmits(deferredSearchQuery)
       THEN SetQueryState(sessionSearch, messages, messageSearchIndex,
                          deferredSearchQuery)
       ELSE sessionSearch
  /\ messageSearchIndex' =
       IF EffectSubmits(deferredSearchQuery)
          /\ SetQueryConsultsIndex(deferredSearchQuery)
       THEN EngineAfterSearch(messageSearchIndex, deferredSearchQuery,
                              sessionSearch.filterType)
       ELSE messageSearchIndex
  /\ last' = [NoOp EXCEPT !.op = "deferredSearchQueryEffect",
                          !.query = deferredSearchQuery,
                          !.submitted = EffectSubmits(deferredSearchQuery),
                          !.searched = (EffectSubmits(deferredSearchQuery)
                                        /\ SetQueryConsultsIndex(deferredSearchQuery)),
                          !.published =
                             IF EffectSubmits(deferredSearchQuery)
                                /\ SetQueryConsultsIndex(deferredSearchQuery)
                             THEN <<SetQuerySearchingState(sessionSearch,
                                                           deferredSearchQuery)>>
                             ELSE <<>>,
                          !.pre = sessionSearch]
  /\ UNCHANGED <<messages, selectedSession, pending, searchCall,
                 scan, snapshotOrigin>>

NextScenario ==
  \/ \E query \in ScenarioQueries : deferredSearchQueryEffect(query)
  \/ \E session \in ScenarioSessions : selectSession(session)
  \/ \E session \in ScenarioSessions : loadSessionMessagesResolved(session)
  \/ \E query \in ScenarioQueries : setSessionSearchQuery(query)
  \/ goToNextMatch
  \/ goToPrevMatch
  \/ \E filterType \in SearchFilterType : setSearchFilterType(filterType)

SpecScenario == Init /\ [][NextScenario]_vars

(***************************************************************************)
(* The engine alone: buildSearchIndex, searchMessages, clearSearchIndex    *)
(* called on snapshots drawn from a pool of message shapes                 *)
(***************************************************************************)

\* A snapshot holds at most MaxMsgs messages.
MaxMsgs == 2

\* The message shapes: content, toolUse, toolUseResult.
MessagePoolSeq ==
  << \* string content with two occurrences of "ab" in different letter case
    [content |-> StringValue(<<"a", "b", " ", "a", "B">>),
     toolUse |-> NoValue, toolUseResult |-> NoValue],
    \* string content where occurrences of "aa" overlap; the text "aaaa b"
    [content |-> StringValue(<<"a", "a", "a", "a">>),
     toolUse |-> NoValue, toolUseResult |-> StringValue(<<"b">>)],
    \* a block with text and thinking, a tool_use block, and a toolUse record
    [content |-> ArrayValue(<< Block("text", <<"x", "a", "b">>, <<"a", "b">>, Null, Null),
                               Block("tool_use", Null, Null, <<"a", "b", "_", "1">>, Null) >>),
     toolUse |-> ToolUse(<<"a", "b", "_", "1">>, <<"b">>), toolUseResult |-> NoValue],
    \* the tokens "b" and "a" but not the text "a b"; a tool id "aa"
    [content |-> StringValue(<<"b", " ", "a">>),
     toolUse |-> ToolUse(<<"a", "a">>, Null), toolUseResult |-> NoValue],
    \* no content text at all: only the tool_use_id of a tool_result block
    [content |-> ArrayValue(<< Block("tool_result", Null, Null, Null, <<"a", "b">>) >>),
     toolUse |-> NoValue, toolUseResult |-> NoValue],
    \* empty string content and a toolUseResult record
    [content |-> StringValue(<<>>),
     toolUse |-> NoValue,
     toolUseResult |-> ToolResult(<<"a", "b">>, <<"A", "B">>, Null)] >>

MessagePool == {MessagePoolSeq[i] : i \in 1..Len(MessagePoolSeq)}

\* The snapshot of the shapes; uuids are unique and not in index order.
Snapshot(shapes) ==
  [i \in 1..Len(shapes) |->
     Message(Uuid("p", Len(shapes) - i), shapes[i].content, shapes[i].toolUse,
             shapes[i].toolUseResult)]

\* The sequences of at most MaxMsgs different shapes that follow the order
\* of the pool or its reverse (up to two shapes: every sequence of
\* different shapes).
Snapshots ==
  {Snapshot([i \in 1..Len(f) |-> MessagePoolSeq[f[i]]]) :
     f \in UNION {{g \in [1..k -> 1..Len(MessagePoolSeq)] :
                     \/ \A i, j \in 1..k : i < j => g[i] < g[j]
                     \/ \A i, j \in 1..k : i < j => g[i] > g[j]} :
                  k \in 0..MaxMsgs}}

IndexQueries ==
  { <<>>, <<" ">>, <<"a", "b">>, <<"A", "B">>, <<"a", "a">>, <<"a", " ", "b">>,
    <<"b">>, <<"a", "b", " ">>, <<"a", "b", "_", "1">>, <<"1", " ", "a">> }

\* buildSearchIndex(messages). The history in last: the call, that a build
\* has happened, and what the instance was before it: built from the same or
\* from another snapshot, cleared after a build, or fresh.
buildSearchIndex(msgs) ==
  /\ messageSearchIndex' = BuildOn(messageSearchIndex, msgs)
  /\ searchCall' = NoSearchCall
  /\ last' = [NoOp EXCEPT !.op = "buildSearchIndex", !.wasBuilt = TRUE,
                          !.before =
                             IF last.cleared /\ last.wasBuilt THEN "cleared"
                             ELSE IF ~last.wasBuilt \/ last.cleared THEN "fresh"
                             ELSE IF messageSearchIndex.messages = msgs THEN "same"
                             ELSE "other"]
  /\ UNCHANGED <<messages, selectedSession, sessionSearch, pending,
                 scan, snapshotOrigin>>

\* clearSearchIndex().
clearSearchIndex ==
  /\ messageSearchIndex' = clear(messageSearchIndex)
  /\ searchCall' = NoSearchCall
  /\ last' = [NoOp EXCEPT !.op = "clearSearchIndex", !.wasBuilt = last.wasBuilt,
                          !.cleared = TRUE]
  /\ UNCHANGED <<messages, selectedSession, sessionSearch, pending,
                 scan, snapshotOrigin>>

\* searchMessages(query, filterType): the call and the list it returns.
searchMessages(query, filterType) ==
  /\ messageSearchIndex' = EngineAfterSearch(messageSearchIndex, query, filterType)
  /\ searchCall' = [called |-> TRUE, query |-> query, filterType |-> filterType,
                    result |-> SearchIn(messageSearchIndex, query, filterType),
                    kept |-> (messageSearchIndex' = messageSearchIndex)]
  /\ last' = [NoOp EXCEPT !.op = "searchMessages", !.wasBuilt = last.wasBuilt,
                          !.cleared = last.cleared]
  /\ UNCHANGED <<messages, selectedSession, sessionSearch, pending,
                 scan, snapshotOrigin>>

NextIndex ==
  \/ \E msgs \in Snapshots : buildSearchIndex(msgs)
  \/ clearSearchIndex
  \/ \E query \in IndexQueries, filterType \in SearchFilterType :
       searchMessages(query, filterType)

SpecIndex == Init /\ [][NextIndex]_vars

(***************************************************************************)
(* findAllMatchesInText alone, on every text and query of bounded length   *)
(***************************************************************************)

MaxTextLen == 4
MaxQueryLen == 2

ScanAlphabet == {"a", "A", "b"}

ScanTexts == UNION {[1..k -> ScanAlphabet] : k \in 0..MaxTextLen}

\* search calls findAllMatchesInText with a non-blank (so non-empty) query.
ScanQueries == UNION {[1..k -> ScanAlphabet] : k \in 1..MaxQueryLen}

InitScan ==
  /\ messages = <<>>
  /\ selectedSession = NoSession
  /\ sessionSearch = createEmptySearchState("content")
  /\ messageSearchIndex = ClearedIndex
  /\ pending = [s \in AllSessions |-> 0]
  /\ last = NoOp
  /\ searchCall = NoSearchCall
  /\ snapshotOrigin = "none"
  /\ \E text \in ScanTexts, query \in ScanQueries :
       scan = [text |-> text, query |-> query, count |-> -1]

\* One call of findAllMatchesInText(text, query).
FindAllMatches ==
  /\ scan.count = -1
  /\ scan' = [scan EXCEPT !.count = findAllMatchesInText(scan.text, scan.query)]
  /\ UNCHANGED <<messages, selectedSession, sessionSearch, messageSearchIndex,
                 pending, last, searchCall, snapshotOrigin>>

NextScan == FindAllMatches

SpecScan == InitScan /\ [][NextScan]_vars

(***************************************************************************)
(* Properties                                                              *)
(***************************************************************************)

MatchCount == Len(sessionSearch.matches)

\* text contains query as a literal substring.
Contains(text, query) == \E p \in 0..Len(text) : OccursAt(text, query, p)

\* C1: after any sequence of store actions, currentMatchIndex is -1 or an
\* index i with 0 <= i < matches.length.
C1_CursorValid ==
  \/ sessionSearch.currentMatchIndex = -1
  \/ /\ 0 <= sessionSearch.currentMatchIndex
     /\ sessionSearch.currentMatchIndex < MatchCount

\* goToMatchIndex(matches.length) has just been called on a list of two or
\* more matches: the first index that is out of range.
C1_Witness ==
  /\ last.op = "goToMatchIndex"
  /\ last.index = MatchCount
  /\ MatchCount >= 2
  /\ sessionSearch.currentMatchIndex = 0

\* list obeys the ordering law: of two records, the one with the greater
\* messageIndex comes first, and for equal messageIndex the one with the
\* greater matchIndex.
IsOrdered(list) ==
  \A i, j \in 1..Len(list) :
    /\ list[i].messageIndex > list[j].messageIndex => i < j
    /\ (list[i].messageIndex = list[j].messageIndex
        /\ list[i].matchIndex > list[j].matchIndex) => i < j

\* C2: sessionSearch.matches, and the list search returns for every query and
\* field on the current index, are sorted by messageIndex descending and then
\* by matchIndex descending.
C2_Ordered ==
  /\ IsOrdered(sessionSearch.matches)
  /\ \A query \in StoreQueries, filterType \in SearchFilterType :
       IsOrdered(SearchIn(messageSearchIndex, query, filterType))

\* The matches span two messages and one message has two occurrences.
C2_Witness ==
  /\ \E i, j \in 1..MatchCount :
       sessionSearch.matches[i].messageIndex # sessionSearch.matches[j].messageIndex
  /\ \E i, j \in 1..MatchCount :
       /\ sessionSearch.matches[i].messageIndex = sessionSearch.matches[j].messageIndex
       /\ sessionSearch.matches[i].matchIndex # sessionSearch.matches[j].matchIndex

\* The positions a left-to-right scan hits: hits is a set of occurrences of
\* query in text such that an occurrence is a hit exactly when every earlier
\* hit ends at or before its start.
IsScanHits(hits, text, query) ==
  /\ \A p \in hits : OccursAt(text, query, p)
  /\ \A p \in 0..Len(text) :
       OccursAt(text, query, p) =>
         (p \in hits <=> \A h \in hits : h < p => h + Len(query) <= p)

\* C3: the count of findAllMatchesInText is the number of non-overlapping,
\* case-insensitive occurrences a left-to-right scan hits when it advances by
\* the query length after each hit; "aaaa" with "aa" counts 2.
C3_NonOverlappingCount ==
  scan.count # -1 =>
    LET text == toLowerCase(scan.text)
        query == toLowerCase(scan.query)
    IN  /\ \E hits \in SUBSET (0..Len(text)) :
             IsScanHits(hits, text, query) /\ Cardinality(hits) = scan.count
        /\ \A hits \in SUBSET (0..Len(text)) :
             IsScanHits(hits, text, query) => Cardinality(hits) = scan.count
        /\ (scan.text = <<"a", "a", "a", "a">> /\ scan.query = <<"a", "a">>)
             => scan.count = 2

\* "aaaa" has been scanned for "aa".
C3_Witness ==
  /\ scan.text = <<"a", "a", "a", "a">>
  /\ scan.query = <<"a", "a">>
  /\ scan.count = 2

\* C4: a message that appears in a search result with matchCount c has
\* exactly c records there, with the matchIndex values 0..c-1, each once, and
\* each with matchCount c.
C4_OneRecordPerOccurrence ==
  searchCall.called =>
    \A i \in 1..Len(searchCall.result) :
      LET r == searchCall.result[i]
          same == {j \in 1..Len(searchCall.result) :
                     searchCall.result[j].messageUuid = r.messageUuid}
      IN  /\ Cardinality(same) = r.matchCount
          /\ {searchCall.result[j].matchIndex : j \in same} = 0..(r.matchCount - 1)
          /\ \A j \in same : /\ searchCall.result[j].matchCount = r.matchCount
                             /\ searchCall.result[j].messageIndex = r.messageIndex
          /\ 0 <= r.matchIndex /\ r.matchIndex < r.matchCount

\* A result with a message of two occurrences and a message of one.
C4_Witness ==
  /\ searchCall.called
  /\ \E i \in 1..Len(searchCall.result) : searchCall.result[i].matchCount = 2
  /\ \E i \in 1..Len(searchCall.result) : searchCall.result[i].matchCount = 1

\* The candidates of the last search call: the hits of the index.
Candidates ==
  LET hits == FlexSearch(IF searchCall.filterType = "toolId"
                         THEN messageSearchIndex.toolIdIndex
                         ELSE messageSearchIndex.contentIndex,
                         toLowerCase(searchCall.query))
  IN  {hits[i] : i \in 1..Len(hits)}

\* The re-extracted text of the message with the uuid, in the snapshot.
TextOfUuid(uuid, filterType) ==
  LET i == CHOOSE k \in 1..Len(messageSearchIndex.messages) :
             messageSearchIndex.messages[k].uuid = uuid
  IN  ExtractField(messageSearchIndex.messages[i], filterType)

\* C5: a message is in the result only if its re-extracted field text holds
\* the query as a literal case-insensitive substring; a candidate of the
\* index without such an occurrence contributes no record.
C5_ExactOccurrencesOnly ==
  searchCall.called =>
    /\ \A i \in 1..Len(searchCall.result) :
         LET r == searchCall.result[i]
         IN  /\ r.messageIndex + 1 \in DOMAIN messageSearchIndex.messages
             /\ messageSearchIndex.messages[r.messageIndex + 1].uuid = r.messageUuid
             /\ Contains(toLowerCase(TextOfUuid(r.messageUuid, searchCall.filterType)),
                         toLowerCase(searchCall.query))
    /\ \A uuid \in Candidates :
         ~Contains(toLowerCase(TextOfUuid(uuid, searchCall.filterType)),
                   toLowerCase(searchCall.query))
           => \A i \in 1..Len(searchCall.result) :
                searchCall.result[i].messageUuid # uuid

\* The index offered a candidate without an exact occurrence next to a
\* message with one.
C5_Witness ==
  /\ searchCall.called
  /\ searchCall.result # <<>>
  /\ \E uuid \in Candidates :
       ~Contains(toLowerCase(TextOfUuid(uuid, searchCall.filterType)),
                 toLowerCase(searchCall.query))

\* C6: setSessionSearchQuery(q) with a non-blank q ends with query = q and
\* the cursor at 0 when there are matches, at -1 with no matches otherwise,
\* whatever the cursor and the query were before.
C6_SetQueryResetsCursor ==
  (last.op = "setSessionSearchQuery" /\ trim(last.query) # <<>>) =>
    /\ sessionSearch.query = last.query
    /\ sessionSearch.isSearching = FALSE
    /\ MatchCount > 0 => sessionSearch.currentMatchIndex = 0
    /\ MatchCount = 0 => sessionSearch.currentMatchIndex = -1

\* The same query has been submitted again while the cursor was past the
\* first match.
C6_Witness ==
  /\ last.op = "setSessionSearchQuery"
  /\ trim(last.query) # <<>>
  /\ last.pre.query = last.query
  /\ last.pre.currentMatchIndex > 0
  /\ sessionSearch.matches = last.pre.matches
  /\ sessionSearch.currentMatchIndex = 0

\* C7: setSessionSearchQuery(q) with an empty or whitespace-only q ends in
\* Idle from any state, with the filterType it found, and returns before the
\* index is consulted.
C7_BlankQueryIdle ==
  (last.op = "setSessionSearchQuery" /\ trim(last.query) = <<>>) =>
    /\ sessionSearch.query = <<>>
    /\ sessionSearch.matches = <<>>
    /\ sessionSearch.currentMatchIndex = -1
    /\ sessionSearch.isSearching = FALSE
    /\ sessionSearch.filterType = last.pre.filterType
    /\ ~last.searched

\* A whitespace-only query has been submitted in a state with matches, the
\* cursor past the first one and the toolId filter.
C7_Witness ==
  /\ last.op = "setSessionSearchQuery"
  /\ last.query = <<" ">>
  /\ Len(last.pre.matches) > 0
  /\ last.pre.filterType = "toolId"
  /\ sessionSearch.filterType = "toolId"
  /\ sessionSearch.matches = <<>>

RECURSIVE NextTimes(_, _)
NextTimes(ss, n) == IF n = 0 THEN ss ELSE NextTimes(NextMatchState(ss), n - 1)

RECURSIVE PrevTimes(_, _)
PrevTimes(ss, n) == IF n = 0 THEN ss ELSE PrevTimes(PrevMatchState(ss), n - 1)

\* C8: goToNextMatch changes nothing when matches is empty; otherwise it sets
\* the cursor to (cursor + 1) mod len and nothing else, it wraps from the last
\* index to 0, and len calls from any valid cursor return to that cursor.
C8_NextCyclic ==
  /\ last.op = "goToNextMatch" =>
       IF Len(last.pre.matches) = 0 THEN sessionSearch = last.pre
       ELSE /\ sessionSearch =
                 [last.pre EXCEPT !.currentMatchIndex =
                    (last.pre.currentMatchIndex + 1) % Len(last.pre.matches)]
            /\ last.pre.currentMatchIndex = Len(last.pre.matches) - 1
                 => sessionSearch.currentMatchIndex = 0
  /\ MatchCount > 0 => NextTimes(sessionSearch, MatchCount) = sessionSearch

\* goToNextMatch has wrapped from the last of three or more matches.
C8_Witness ==
  /\ last.op = "goToNextMatch"
  /\ MatchCount >= 3
  /\ last.pre.currentMatchIndex = MatchCount - 1
  /\ sessionSearch.currentMatchIndex = 0

\* C9: goToPrevMatch changes nothing when matches is empty; otherwise it sets
\* the cursor to len - 1 if cursor <= 0 and to cursor - 1 otherwise, and
\* nothing else; len calls from any valid cursor return to that cursor.
C9_PrevCyclic ==
  /\ last.op = "goToPrevMatch" =>
       IF Len(last.pre.matches) = 0 THEN sessionSearch = last.pre
       ELSE sessionSearch =
              [last.pre EXCEPT !.currentMatchIndex =
                 IF last.pre.currentMatchIndex <= 0
                 THEN Len(last.pre.matches) - 1
                 ELSE last.pre.currentMatchIndex - 1]
  /\ MatchCount > 0 => PrevTimes(sessionSearch, MatchCount) = sessionSearch

\* goToPrevMatch has wrapped from cursor 0 to the last of several matches.
C9_Witness ==
  /\ last.op = "goToPrevMatch"
  /\ MatchCount >= 2
  /\ last.pre.currentMatchIndex = 0
  /\ sessionSearch.currentMatchIndex = MatchCount - 1

\* C10: goToMatchIndex(i) with i outside [0, matches.length) leaves the
\* SearchState as it was; with i inside it sets currentMatchIndex = i and
\* leaves query, matches, filterType and isSearching as they were.
C10_JumpValidated ==
  last.op = "goToMatchIndex" =>
    IF last.index < 0 \/ last.index >= Len(last.pre.matches)
    THEN sessionSearch = last.pre
    ELSE /\ sessionSearch.currentMatchIndex = last.index
         /\ sessionSearch.query = last.pre.query
         /\ sessionSearch.matches = last.pre.matches
         /\ sessionSearch.filterType = last.pre.filterType
         /\ sessionSearch.isSearching = last.pre.isSearching

\* goToMatchIndex(-1) has been rejected in a state with matches and the
\* cursor past the first one.
C10_Witness ==
  /\ last.op = "goToMatchIndex"
  /\ last.index = -1
  /\ MatchCount >= 2
  /\ sessionSearch.currentMatchIndex > 0
  /\ sessionSearch = last.pre

\* C11: setSearchFilterType(f) always ends in Idle with filterType = f: the
\* query is empty, there are no matches, the cursor is -1 and isSearching is
\* false, whatever the state before and also when f is the current filter.
C11_FilterTypeResets ==
  last.op = "setSearchFilterType" =>
    /\ sessionSearch.filterType = last.filterType
    /\ sessionSearch.query = <<>>
    /\ sessionSearch.matches = <<>>
    /\ sessionSearch.currentMatchIndex = -1
    /\ sessionSearch.isSearching = FALSE

\* setSearchFilterType was called with the current filter on a state with
\* matches, and has emptied it.
C11_Witness ==
  /\ last.op = "setSearchFilterType"
  /\ last.pre.filterType = last.filterType
  /\ Len(last.pre.matches) > 0
  /\ sessionSearch.matches = <<>>

\* C12: clearSessionSearch resets the search to Idle and leaves filterType
\* as it was; a second clearSessionSearch leaves the state of the first.
C12_ClearKeepsFilter ==
  last.op = "clearSessionSearch" =>
    /\ sessionSearch.filterType = last.pre.filterType
    /\ sessionSearch.query = <<>>
    /\ sessionSearch.matches = <<>>
    /\ sessionSearch.currentMatchIndex = -1
    /\ sessionSearch.isSearching = FALSE
    /\ ClearSearchState(sessionSearch) = sessionSearch

\* clearSessionSearch has cleared a tool-id search that had matches.
C12_Witness ==
  /\ last.op = "clearSessionSearch"
  /\ last.pre.filterType = "toolId"
  /\ Len(last.pre.matches) > 0
  /\ sessionSearch.matches = <<>>

\* C13: filterType changes only through setSearchFilterType: after
\* setSessionSearchQuery (blank, non-blank and raising), goToNextMatch,
\* goToPrevMatch, goToMatchIndex, clearSessionSearch and selectSession (and
\* the other steps of the store) it is what it was before.
C13_FilterTypeFrame ==
  last.op \notin {"init", "setSearchFilterType"} =>
    sessionSearch.filterType = last.pre.filterType

\* selectSession has reset a tool-id search that had matches.
C13_Witness ==
  /\ last.op = "selectSession"
  /\ last.pre.filterType = "toolId"
  /\ Len(last.pre.matches) > 0
  /\ sessionSearch.filterType = "toolId"

\* The uuids of the messages of a snapshot.
UuidsOf(msgs) == {msgs[i].uuid : i \in 1..Len(msgs)}

\* C14: after clear(), search returns the empty list for every query and
\* both fields, whatever was built before, until the next build; after that
\* build the results are those of the newly supplied snapshot.
C14_ClearedUntilBuild ==
  /\ last.cleared =>
       /\ \A query \in IndexQueries, filterType \in SearchFilterType :
            SearchIn(messageSearchIndex, query, filterType) = <<>>
       /\ searchCall.result = <<>>
  /\ (last.op = "buildSearchIndex" /\ last.before = "cleared") =>
       \A query \in IndexQueries, filterType \in SearchFilterType :
         SearchIn(messageSearchIndex, query, filterType)
           = SearchIn(build(messageSearchIndex.messages), query, filterType)

\* A search for "ab" on an instance that was built and then cleared.
C14_Witness ==
  /\ last.cleared
  /\ last.wasBuilt
  /\ last.op = "searchMessages"
  /\ searchCall.called
  /\ searchCall.query = <<"a", "b">>
  /\ searchCall.result = <<>>

\* C15: search returns the empty list when the query is empty or only white
\* space, whatever the state of the instance, and when build was never called.
C15_BlankOrUnbuiltEmpty ==
  /\ \A query \in IndexQueries, filterType \in SearchFilterType :
       (trim(query) = <<>> \/ ~last.wasBuilt) =>
          SearchIn(messageSearchIndex, query, filterType) = <<>>
  /\ (searchCall.called /\ (trim(searchCall.query) = <<>> \/ ~last.wasBuilt)) =>
       searchCall.result = <<>>

\* A search for " " on an instance built from a text that holds a space.
C15_Witness ==
  /\ searchCall.called
  /\ searchCall.query = <<" ">>
  /\ searchCall.filterType = "content"
  /\ messageSearchIndex.isBuilt
  /\ \E i \in 1..Len(messageSearchIndex.messages) :
       Contains(extractSearchableText(messageSearchIndex.messages[i]), <<" ">>)
  /\ searchCall.result = <<>>

\* C16: build replaces the previous state: however the instance got to hold
\* its snapshot, it is the instance a fresh one becomes by build of that
\* snapshot, it answers every search as that one does, and no match names a
\* message outside the snapshot (so none of an earlier snapshot only).
C16_BuildReplaces ==
  messageSearchIndex.isBuilt =>
    /\ messageSearchIndex = build(messageSearchIndex.messages)
    /\ \A query \in IndexQueries, filterType \in SearchFilterType :
         LET answer == SearchIn(messageSearchIndex, query, filterType)
         IN  /\ answer = SearchIn(build(messageSearchIndex.messages), query, filterType)
             /\ \A i \in 1..Len(answer) :
                  answer[i].messageUuid \in UuidsOf(messageSearchIndex.messages)

\* A build has replaced another, different snapshot, and the new one has a
\* match for "ab".
C16_Witness ==
  /\ last.op = "buildSearchIndex"
  /\ last.before = "other"
  /\ SearchIn(messageSearchIndex, <<"a", "b">>, "content") # <<>>

NoMatchFor(matches, messageIndex) ==
  \A i \in 1..Len(matches) : matches[i].messageIndex # messageIndex

\* C18 as stated: under toolId a message none of whose tool identifiers
\* contains the query has no match, and under content a message whose content
\* text does not contain it has none.
C18_IsolationPerIdentifier ==
  searchCall.called =>
    \A k \in 1..Len(messageSearchIndex.messages) :
      LET message == messageSearchIndex.messages[k]
          lowerQuery == toLowerCase(searchCall.query)
          ids == ToolIdParts(message)
      IN  /\ (/\ searchCall.filterType = "toolId"
              /\ \A i \in 1..Len(ids) : ~Contains(toLowerCase(ids[i]), lowerQuery))
               => NoMatchFor(searchCall.result, k - 1)
          /\ (/\ searchCall.filterType = "content"
              /\ ~Contains(toLowerCase(extractSearchableText(message)), lowerQuery))
               => NoMatchFor(searchCall.result, k - 1)

\* C18: filter isolation on the extracted texts: under toolId a message whose
\* toolId text (its identifiers joined by spaces) does not contain the query
\* has no match, also when its content text contains it; under content a
\* message whose content text does not contain it has none, also when its
\* toolId text does.
C18_FilterIsolation ==
  searchCall.called =>
    \A k \in 1..Len(messageSearchIndex.messages) :
      LET message == messageSearchIndex.messages[k]
          lowerQuery == toLowerCase(searchCall.query)
      IN  /\ (/\ searchCall.filterType = "toolId"
              /\ ~Contains(toLowerCase(extractToolIds(message)), lowerQuery))
               => NoMatchFor(searchCall.result, k - 1)
          /\ (/\ searchCall.filterType = "content"
              /\ ~Contains(toLowerCase(extractSearchableText(message)), lowerQuery))
               => NoMatchFor(searchCall.result, k - 1)

\* A toolId search for a text that the content of a message contains and its
\* toolId text does not, without a match for that message.
C18_Witness ==
  /\ searchCall.called
  /\ searchCall.filterType = "toolId"
  /\ trim(searchCall.query) # <<>>
  /\ \E k \in 1..Len(messageSearchIndex.messages) :
       LET message == messageSearchIndex.messages[k]
           lowerQuery == toLowerCase(searchCall.query)
       IN  /\ Contains(toLowerCase(extractSearchableText(message)), lowerQuery)
           /\ ~Contains(toLowerCase(extractToolIds(message)), lowerQuery)
           /\ NoMatchFor(searchCall.result, k - 1)

\* The message whose only searchable data is toolUse = {id: "tu_42", name: "Bash"}.
ToolOnlyMessage == SessionFile("tool")[1]

\* C19: for the message whose only searchable data is the toolUse record
\* {id: "tu_42", name: "Bash"}, the toolId text is "tu_42" and the content
\* text is "Bash", and the query "tu_42" yields exactly one match under
\* toolId and none under content.
C19_ToolUseIdOnlyInToolId ==
  /\ extractToolIds(ToolOnlyMessage) = <<"t", "u", "_", "4", "2">>
  /\ extractSearchableText(ToolOnlyMessage) = <<"B", "a", "s", "h">>
  /\ (/\ last.op = "setSessionSearchQuery"
      /\ last.query = <<"t", "u", "_", "4", "2">>
      /\ messages = SessionFile("tool")) =>
       /\ sessionSearch.filterType = "toolId" =>
            sessionSearch.matches
              = << [messageUuid |-> Uuid("tool", 0), messageIndex |-> 0,
                    matchIndex |-> 0, matchCount |-> 1] >>
       /\ sessionSearch.filterType = "content" => sessionSearch.matches = <<>>

\* The query "tu_42" under toolId has found its one match in the session of
\* the tool-only message.
C19_Witness ==
  /\ last.op = "setSessionSearchQuery"
  /\ last.query = <<"t", "u", "_", "4", "2">>
  /\ messages = SessionFile("tool")
  /\ sessionSearch.filterType = "toolId"
  /\ Len(sessionSearch.matches) = 1

\* The matches of "hello" in the session "hello world", "say hello",
\* "goodbye": newest message first.
HelloMatches ==
  << [messageUuid |-> Uuid("hello", 1), messageIndex |-> 1,
      matchIndex |-> 0, matchCount |-> 1],
     [messageUuid |-> Uuid("hello", 0), messageIndex |-> 0,
      matchIndex |-> 0, matchCount |-> 1] >>

\* C20: with the messages "hello world" (0), "say hello" (1), "goodbye" (2)
\* loaded, setSessionSearchQuery("hello") under content yields the matches
\* (1,0,1), (0,0,1) with the cursor at 0; goToNextMatch then selects the
\* match of message 0, and another goToNextMatch wraps to that of message 1.
C20_EndToEnd ==
  /\ (/\ last.op = "setSessionSearchQuery"
      /\ last.query = <<"h", "e", "l", "l", "o">>
      /\ sessionSearch.filterType = "content"
      /\ messages = SessionFile("hello")) =>
       /\ sessionSearch.matches = HelloMatches
       /\ sessionSearch.currentMatchIndex = 0
  /\ (/\ last.op = "goToNextMatch"
      /\ last.pre.matches = HelloMatches
      /\ last.pre.currentMatchIndex = 0) =>
       /\ sessionSearch.matches = HelloMatches
       /\ sessionSearch.currentMatchIndex = 1
       /\ sessionSearch.matches[sessionSearch.currentMatchIndex + 1].messageIndex = 0
  /\ (/\ last.op = "goToNextMatch"
      /\ last.pre.matches = HelloMatches
      /\ last.pre.currentMatchIndex = 1) =>
       /\ sessionSearch.matches = HelloMatches
       /\ sessionSearch.currentMatchIndex = 0
       /\ sessionSearch.matches[sessionSearch.currentMatchIndex + 1].messageIndex = 1

\* The second goToNextMatch after the query "hello" has wrapped to the match
\* of message 1.
C20_Witness ==
  /\ last.op = "goToNextMatch"
  /\ messages = SessionFile("hello")
  /\ sessionSearch.query = <<"h", "e", "l", "l", "o">>
  /\ last.pre.matches = HelloMatches
  /\ last.pre.currentMatchIndex = 1
  /\ sessionSearch.currentMatchIndex = 0

\* The one contribution the extraction rule "the element itself if it is a
\* string, else its text, else its thinking" gives an element.
OneContributionOf(item) ==
  IF item.kind = "string" THEN <<item.value>>
  ELSE IF item.kind = "record"
  THEN (IF hasStringProperty(item.text) THEN <<item.text>>
        ELSE IF hasStringProperty(item.thinking) THEN <<item.thinking>>
        ELSE <<>>)
  ELSE <<>>

RECURSIVE OneContributionEach(_)
OneContributionEach(items) ==
  IF items = <<>> THEN <<>>
  ELSE OneContributionOf(Head(items)) \o OneContributionEach(Tail(items))

\* C21: each element of an array-shaped content contributes exactly one
\* string to the content text: itself if it is a string, else its text, else
\* (only when text is absent) its thinking; so the matches of a content
\* search in a message are the occurrences in the text without the thinking
\* of blocks that have a text.
C21_OneContributionPerElement ==
  /\ \A k \in 1..Len(messageSearchIndex.messages) :
       LET content == messageSearchIndex.messages[k].content
       IN  content.kind = "array" =>
             \A i \in 1..Len(content.items) :
               ContentItemParts(content.items[i]) = OneContributionOf(content.items[i])
  /\ (searchCall.called /\ searchCall.filterType = "content") =>
       \A i \in 1..Len(searchCall.result) :
         LET match == searchCall.result[i]
             message == messageSearchIndex.messages[match.messageIndex + 1]
             items == IF message.content.kind = "array"
                      THEN message.content.items ELSE <<>>
             thinkingOfTextBlocks ==
               {j \in 1..Len(items) :
                  /\ items[j].kind = "record"
                  /\ hasStringProperty(items[j].text)
                  /\ hasStringProperty(items[j].thinking)}
         IN  thinkingOfTextBlocks # {} =>
               match.matchCount
                 <= findAllMatchesInText(
                      toLowerCase(JoinSpace(
                        OneContributionEach(items)
                        \o ToolNameParts(message) \o ToolResultParts(message))),
                      toLowerCase(searchCall.query))

\* The identifiers the toolId field is to hold for the elements of an
\* array-shaped content, in the order of the elements.
RECURSIVE ExpectedBlockIds(_)
ExpectedBlockIds(items) ==
  IF items = <<>> THEN <<>>
  ELSE LET item == Head(items)
           own == IF item.kind # "record" THEN <<>>
                  ELSE IF item.type = "tool_use" /\ item.id # Null THEN <<item.id>>
                  ELSE IF item.type = "tool_result" /\ item.tool_use_id # Null
                  THEN <<item.tool_use_id>>
                  ELSE <<>>
       IN  own \o ExpectedBlockIds(Tail(items))

ExpectedToolIds(message) ==
  (IF message.content.kind = "array"
   THEN ExpectedBlockIds(message.content.items) ELSE <<>>)
  \o (IF message.toolUse.kind = "record" /\ message.toolUse.id # Null
      THEN <<message.toolUse.id>> ELSE <<>>)

\* C22: the toolId text of a message is the space-joined list, in element
\* order, of the id of each tool_use element and the tool_use_id of each
\* tool_result element of an array-shaped content, then toolUse.id; string
\* content, other elements, text, thinking, toolUse.name and toolUseResult
\* add nothing: a toolId search for "t" counts one occurrence per identifier.
C22_ToolIdsExtracted ==
  /\ \A k \in 1..Len(messages) :
       extractToolIds(messages[k]) = JoinSpace(ExpectedToolIds(messages[k]))
  /\ (/\ last.op = "setSessionSearchQuery"
      /\ last.query = <<"t">>
      /\ sessionSearch.filterType = "toolId"
      /\ messages = SessionFile("ids")) =>
       /\ extractToolIds(messages[1])
            = <<"t", "2", " ", "t", "1", " ", "t", "5">>
       /\ extractToolIds(messages[2]) = <<>>
       /\ Len(sessionSearch.matches) = 3
       /\ \A i \in 1..3 :
            /\ sessionSearch.matches[i].messageIndex = 0
            /\ sessionSearch.matches[i].matchCount = 3

\* The toolId search for "t" has run on the session with every kind of
\* content element and found the three identifiers.
C22_Witness ==
  /\ last.op = "setSessionSearchQuery"
  /\ last.query = <<"t">>
  /\ sessionSearch.filterType = "toolId"
  /\ messages = SessionFile("ids")
  /\ Len(sessionSearch.matches) = 3

\* C23: the index is torn down whenever the conversation changes or is
\* deselected: right after selectSession has started and right after
\* selectProject has set selectedSession to null the instance is cleared (not
\* built, no snapshot) and search returns nothing.
C23_TornDownOnChange ==
  last.op \in {"selectSession", "selectProject"} =>
    /\ ~messageSearchIndex.isBuilt
    /\ messageSearchIndex.messages = <<>>
    /\ \A query \in StoreQueries, filterType \in SearchFilterType :
         SearchIn(messageSearchIndex, query, filterType) = <<>>

\* C24: each action that changes the selected conversation (selectSession,
\* and selectProject, which deselects the session and empties messages)
\* leaves sessionSearch with an empty query, no matches, the cursor at -1 and
\* isSearching false, with the filterType it had.
C24_SearchResetOnChange ==
  last.op \in {"selectSession", "selectProject"} =>
    /\ sessionSearch.query = <<>>
    /\ sessionSearch.matches = <<>>
    /\ sessionSearch.currentMatchIndex = -1
    /\ sessionSearch.isSearching = FALSE
    /\ sessionSearch.filterType = last.pre.filterType

\* The number of different messageUuid values in a match list.
DistinctUuids(matches) ==
  Cardinality({matches[i].messageUuid : i \in 1..Len(matches)})

\* The index search reads for a filter type.
IndexOf(eng, filterType) ==
  IF filterType = "toolId" THEN eng.toolIdIndex ELSE eng.contentIndex

UpperChar(c) ==
  CASE c = "a" -> "A"
    [] c = "b" -> "B"
    [] c = "x" -> "X"
    [] OTHER -> c

toUpperCase(s) == [i \in 1..Len(s) |-> UpperChar(s[i])]

\* The value with every string in it in upper case.
UpperValue(v) ==
  IF v.kind = "string" THEN StringValue(toUpperCase(v.value))
  ELSE IF v.kind = "array"
  THEN ArrayValue([i \in 1..Len(v.items) |->
                     IF v.items[i].kind = "string"
                     THEN StringValue(toUpperCase(v.items[i].value))
                     ELSE Block(v.items[i].type, toUpperCase(v.items[i].text),
                                toUpperCase(v.items[i].thinking),
                                toUpperCase(v.items[i].id),
                                toUpperCase(v.items[i].tool_use_id))])
  ELSE IF v.kind = "record" /\ "stdout" \in DOMAIN v
  THEN ToolResult(toUpperCase(v.stdout), toUpperCase(v.stderr),
                  toUpperCase(v.content))
  ELSE IF v.kind = "record"
  THEN ToolUse(toUpperCase(v.id), toUpperCase(v.name))
  ELSE v

\* The snapshot with the text of every message in upper case.
UpperSnapshot(msgs) ==
  [k \in 1..Len(msgs) |->
     Message(msgs[k].uuid, UpperValue(msgs[k].content),
             UpperValue(msgs[k].toolUse), UpperValue(msgs[k].toolUseResult))]

\* C26: search is case-insensitive in the query and in the message text:
\* for the snapshot built and either field, the query in lower or in upper
\* case, and the snapshot with its texts in upper case, give the same ordered
\* match list.
C26_CaseInsensitive ==
  messageSearchIndex.isBuilt =>
    LET upper == build(UpperSnapshot(messageSearchIndex.messages))
    IN  \A query \in IndexQueries, filterType \in SearchFilterType :
          LET answer == SearchIn(messageSearchIndex, query, filterType)
          IN  /\ SearchIn(messageSearchIndex, toLowerCase(query), filterType) = answer
              /\ SearchIn(messageSearchIndex, toUpperCase(query), filterType) = answer
              /\ SearchIn(upper, query, filterType) = answer

\* The query "AB" has found the matches of a text that holds "ab" and "aB".
C26_Witness ==
  /\ searchCall.called
  /\ searchCall.query = <<"A", "B">>
  /\ searchCall.filterType = "content"
  /\ \E k \in 1..Len(messageSearchIndex.messages) :
       extractSearchableText(messageSearchIndex.messages[k])
         = <<"a", "b", " ", "a", "B">>
  /\ Len(searchCall.result) >= 2

\* The string w starts with the string p.
StartsWith(p, w) ==
  \E rest \in 0..Len(w) : Len(w) = Len(p) + rest /\ SubSeq(w, 1, Len(p)) = p

\* The query is one token: it is not blank and holds no separator.
IsSingleToken(lowerQuery) == Tokens(lowerQuery) = {lowerQuery}

C28_RaisedEndsNoResults ==
  (last.op = "setSessionSearchQuery" /\ last.raised) =>
    /\ sessionSearch.query = last.query
    /\ sessionSearch.matches = <<>>
    /\ sessionSearch.results = <<>>
    /\ sessionSearch.currentMatchIndex = -1
    /\ sessionSearch.isSearching = FALSE
    /\ sessionSearch.filterType = last.pre.filterType

\* The search has raised on a tool-id SearchState that had matches for
\* another query.
C28_Witness ==
  /\ last.op = "setSessionSearchQuery"
  /\ last.raised
  /\ last.pre.filterType = "toolId"
  /\ Len(last.pre.matches) > 0
  /\ last.pre.query # last.query
  /\ sessionSearch.query = last.query

\* A read of the message raises during extraction.
ExtractionFails(message) ==
  \/ message.content.kind = "raises"
  \/ message.toolUse.kind = "raises"
  \/ message.toolUseResult.kind = "raises"

\* The uuids of the documents of an index.
DocUuids(index) == {index[i].uuid : i \in 1..Len(index)}

C30_MinLengthByCaller ==
  /\ last.op = "deferredSearchQueryEffect" =>
       /\ last.submitted <=> (Len(last.query) = 0 \/ Len(last.query) >= 2)
       /\ ~last.submitted => sessionSearch = last.pre
       /\ Len(last.query) = 0 =>
            sessionSearch = createEmptySearchState(last.pre.filterType)
       /\ Len(last.query) >= 2 => sessionSearch.query = last.query
  /\ (last.op = "setSessionSearchQuery" /\ last.query = <<"t">>) =>
       /\ last.searched
       /\ sessionSearch.query = <<"t">>
       /\ sessionSearch.matches
            = KeepValidIndexes(SearchIn(messageSearchIndex, <<"t">>,
                                        sessionSearch.filterType), messages)

\* The effect has run on the one-character value "t", for which the store
\* would have found matches, and has left a SearchState with other matches
\* as it was.
C30_Witness ==
  /\ last.op = "deferredSearchQueryEffect"
  /\ last.query = <<"t">>
  /\ Len(sessionSearch.matches) > 0
  /\ sessionSearch.query # <<"t">>
  /\ SearchIn(messageSearchIndex, <<"t">>, sessionSearch.filterType) # <<>>

\* The states of the session search, as the specification names them.
Idle(ss) ==
  ss.query = <<>> /\ ss.matches = <<>> /\ ss.currentMatchIndex = -1

HasResults(ss) ==
  /\ ss.query # <<>>
  /\ 0 <= ss.currentMatchIndex
  /\ ss.currentMatchIndex < Len(ss.matches)

NoResults(ss) ==
  ss.query # <<>> /\ ss.matches = <<>> /\ ss.currentMatchIndex = -1

\* C31: after every store action, currentMatchIndex = -1 exactly when
\* matches is empty, an empty query comes with empty matches, and the
\* SearchState is in exactly one of Idle, HasResults and NoResults.
C31_StateTrichotomy ==
  /\ (sessionSearch.currentMatchIndex = -1) <=> (sessionSearch.matches = <<>>)
  /\ sessionSearch.query = <<>> => sessionSearch.matches = <<>>
  /\ \/ Idle(sessionSearch) /\ ~HasResults(sessionSearch) /\ ~NoResults(sessionSearch)
     \/ ~Idle(sessionSearch) /\ HasResults(sessionSearch) /\ ~NoResults(sessionSearch)
     \/ ~Idle(sessionSearch) /\ ~HasResults(sessionSearch) /\ NoResults(sessionSearch)

\* A query without matches has been submitted in HasResults with the cursor
\* past the first match: the state went from HasResults to NoResults.
C31_Witness ==
  /\ last.op = "setSessionSearchQuery"
  /\ ~last.raised
  /\ HasResults(last.pre)
  /\ last.pre.currentMatchIndex > 0
  /\ NoResults(sessionSearch)
  /\ messages # <<>>

\* C32: isSearching is true only in the state setSessionSearchQuery publishes
\* between storing the query and storing the matches; when any action
\* returns, on the success path or through the catch block, isSearching is
\* false, and every action starts in a state where it is false.
C32_SearchingTransient ==
  /\ sessionSearch.isSearching = FALSE
  /\ last.pre.isSearching = FALSE
  /\ \A i \in 1..Len(last.published) :
       /\ last.op = "setSessionSearchQuery"
       /\ last.searched
       /\ last.published[i].isSearching = TRUE
       /\ last.published[i].query = last.query
       /\ last.published[i].matches = last.pre.matches
  /\ (last.op = "setSessionSearchQuery" /\ trim(last.query) # <<>>)
       => Len(last.published) = 1

\* searchMessagesFromIndex has raised in a state with matches: the state
\* published before the call still held them with isSearching true, and the
\* catch block has stored isSearching false.
C32_Witness ==
  /\ last.op = "setSessionSearchQuery"
  /\ last.raised
  /\ Len(last.pre.matches) > 0
  /\ Len(last.published) = 1
  /\ last.published[1].isSearching = TRUE
  /\ last.published[1].matches = last.pre.matches
  /\ sessionSearch.isSearching = FALSE
  /\ sessionSearch.matches = <<>>

\* C33: under any interleaving of selectProject, selectSession, the load
\* completions and the search actions, every match of sessionSearch.matches
\* refers to a message of the store's current messages:
\* 0 <= messageIndex < messages.length and messages[messageIndex].uuid =
\* messageUuid.
C33_MatchesReferToMessages ==
  \A i \in 1..Len(sessionSearch.matches) :
    LET m == sessionSearch.matches[i]
    IN  /\ 0 <= m.messageIndex
        /\ m.messageIndex < Len(messages)
        /\ messages[m.messageIndex + 1].uuid = m.messageUuid

\* C34: when selectSession calls overlap and their loads complete in any
\* order, then once the last load has resolved and none is pending, the
\* store's messages and the snapshot of the index are those of
\* selectedSession, the session selected last.
C34_LastSelectedWins ==
  (/\ last.op = "loadResolved"
   /\ PendingCount = 0
   /\ selectedSession \in Sessions)
    => /\ messages = SessionFile(selectedSession)
       /\ messageSearchIndex.messages = SessionFile(selectedSession)

\* C35: in every state between store actions and load completions, the
\* store's messages list is empty or is the snapshot the index was last
\* built from, and whenever the index is built its snapshot was produced by
\* the load completion that last assigned a non-empty messages list.
C35_SnapshotOfLastAssignment ==
  /\ messages = <<>> \/ messages = messageSearchIndex.messages
  /\ messageSearchIndex.isBuilt => snapshotOrigin = "assigner"

\* C35, amended: the messages list is empty or is the snapshot the index was
\* last built from, and whenever the index is built from a non-empty
\* snapshot, that snapshot was produced by the load completion that last
\* assigned a non-empty messages list.
C35_NonEmptySnapshotOfLastAssignment ==
  /\ messages = <<>> \/ messages = messageSearchIndex.messages
  /\ (messageSearchIndex.isBuilt /\ messageSearchIndex.messages # <<>>)
       => snapshotOrigin = "assigner"

\* selectProject has emptied the messages list over an index that is still
\* built from the snapshot of the last load while another load is pending.
C35_Witness ==
  /\ last.op = "selectProject"
  /\ messages = <<>>
  /\ messageSearchIndex.isBuilt
  /\ messageSearchIndex.messages # <<>>
  /\ PendingCount > 0

\* A match record points into a list of n messages.
PointsInto(m, n) == 0 <= m.messageIndex /\ m.messageIndex < n

\* C36: a non-blank setSessionSearchQuery keeps exactly the results of the
\* index whose messageIndex lies in [0, messages.length) of the store's
\* messages; so while the messages list is empty it ends in NoResults,
\* whatever the index still contains.
C36_FilteredByMessages ==
  (last.op = "setSessionSearchQuery" /\ ~last.raised /\ trim(last.query) # <<>>)
    => LET found == SearchIn(messageSearchIndex, last.query, last.pre.filterType)
       IN  /\ sessionSearch.matches =
                SelectSeq(found, LAMBDA m : PointsInto(m, Len(messages)))
           /\ \A i \in 1..MatchCount :
                PointsInto(sessionSearch.matches[i], Len(messages))
           /\ messages = <<>> => NoResults(sessionSearch)

\* A non-blank query has been submitted over an empty messages list while
\* the index, still built, finds matches for it.
C36_Witness ==
  /\ last.op = "setSessionSearchQuery"
  /\ ~last.raised
  /\ trim(last.query) # <<>>
  /\ messages = <<>>
  /\ messageSearchIndex.isBuilt
  /\ SearchIn(messageSearchIndex, last.query, last.pre.filterType) # <<>>
  /\ NoResults(sessionSearch)

\* C37: in every HasResults state goToNextMatch and goToPrevMatch are
\* inverses of each other: next then prev, and prev then next, give back the
\* SearchState they started from, cursor and all other fields.
C37_NextPrevInverse ==
  /\ HasResults(sessionSearch) =>
       /\ PrevMatchState(NextMatchState(sessionSearch)) = sessionSearch
       /\ NextMatchState(PrevMatchState(sessionSearch)) = sessionSearch
  /\ (last.op = "goToNextMatch" /\ HasResults(last.pre)) =>
       PrevMatchState(sessionSearch) = last.pre
  /\ (last.op = "goToPrevMatch" /\ HasResults(last.pre)) =>
       NextMatchState(sessionSearch) = last.pre

\* goToPrevMatch has wrapped from the first to the last of three or more
\* matches, and goToNextMatch from there wraps back to the first.
C37_Witness ==
  /\ last.op = "goToPrevMatch"
  /\ HasResults(last.pre)
  /\ MatchCount >= 3
  /\ last.pre.currentMatchIndex = 0
  /\ sessionSearch.currentMatchIndex = MatchCount - 1
  /\ NextMatchState(sessionSearch).currentMatchIndex = 0

\* The instance eng after a partial clear: without the entry of uuid in the
\* uuid map, and without the last message of the snapshot.
WithoutMapEntry(eng, uuid) ==
  [eng EXCEPT !.messageMap = [u \in (DOMAIN @) \ {uuid} |-> @[u]]]

WithoutLastMessage(eng) ==
  [eng EXCEPT !.messages = SubSeq(@, 1, Len(@) - 1)]

\* The records of matches that do not belong to the message uuid, and those
\* whose messageIndex is not n.
MatchesNotOf(matches, uuid) ==
  SelectSeq(matches, LAMBDA m : m.messageUuid # uuid)

MatchesNotAt(matches, n) ==
  SelectSeq(matches, LAMBDA m : m.messageIndex # n)

\* C38: every match search returns resolves in the snapshot the engine was
\* built from: 0 <= messageIndex < snapshot length and
\* snapshot[messageIndex].uuid = messageUuid; a candidate the uuid map or the
\* snapshot cannot resolve is skipped: the search returns the matches of
\* the other candidates and none for it.
C38_MatchesResolveInSnapshot ==
  searchCall.called =>
    /\ \A i \in 1..Len(searchCall.result) :
         LET m == searchCall.result[i]
         IN  /\ PointsInto(m, Len(messageSearchIndex.messages))
             /\ messageSearchIndex.messages[m.messageIndex + 1].uuid = m.messageUuid
    /\ \A uuid \in DOMAIN messageSearchIndex.messageMap :
         SearchIn(WithoutMapEntry(messageSearchIndex, uuid),
                  searchCall.query, searchCall.filterType)
           = MatchesNotOf(searchCall.result, uuid)
    /\ messageSearchIndex.messages # <<>> =>
         SearchIn(WithoutLastMessage(messageSearchIndex),
                  searchCall.query, searchCall.filterType)
           = MatchesNotAt(searchCall.result, Len(messageSearchIndex.messages) - 1)

\* A search has returned matches in two messages, so that the candidate of
\* either, left unresolved, is skipped while the other still matches.
C38_Witness ==
  /\ searchCall.called
  /\ \E i, j \in 1..Len(searchCall.result) :
       /\ searchCall.result[i].messageUuid # searchCall.result[j].messageUuid
       /\ searchCall.result[i].messageIndex = Len(messageSearchIndex.messages) - 1
       /\ MatchesNotOf(searchCall.result, searchCall.result[i].messageUuid) # <<>>
       /\ SearchIn(WithoutMapEntry(messageSearchIndex, searchCall.result[i].messageUuid),
                   searchCall.query, searchCall.filterType) # <<>>

\* The (messageIndex, matchIndex) pair of a is strictly smaller than that of
\* b in lexicographic order.
PairLess(a, b) ==
  \/ a.messageIndex < b.messageIndex
  \/ a.messageIndex = b.messageIndex /\ a.matchIndex < b.matchIndex

\* The message at the 0-based index n of msgs is a candidate of the index
\* eng for the query and holds at least one occurrence of it.
IsMatchingCandidate(eng, msgs, n, query, filterType) ==
  LET lowerQuery == toLowerCase(query)
      index == IF filterType = "toolId" THEN eng.toolIdIndex ELSE eng.contentIndex
      hits == FlexSearch(index, lowerQuery)
  IN  /\ \E i \in 1..Len(hits) : hits[i] = msgs[n + 1].uuid
      /\ Contains(toLowerCase(ExtractField(msgs[n + 1], filterType)), lowerQuery)

\* The match under the cursor.
CurrentMatch(ss) == ss.matches[ss.currentMatchIndex + 1]

\* C39: right after a setSessionSearchQuery that finds matches, the current
\* match is the last occurrence (matchIndex = matchCount - 1) in the
\* matching candidate message with the greatest messageIndex; and every
\* goToNextMatch that does not wrap moves to a strictly smaller
\* (messageIndex, matchIndex) pair.
C39_BottomUp ==
  /\ (last.op = "setSessionSearchQuery" /\ MatchCount > 0) =>
       LET cur == CurrentMatch(sessionSearch)
       IN  /\ cur.matchIndex = cur.matchCount - 1
           /\ IsMatchingCandidate(messageSearchIndex, messages, cur.messageIndex,
                                  last.query, last.pre.filterType)
           /\ \A n \in 0..(Len(messages) - 1) :
                IsMatchingCandidate(messageSearchIndex, messages, n,
                                    last.query, last.pre.filterType)
                  => n <= cur.messageIndex
  /\ (last.op = "goToNextMatch" /\ MatchCount > 0
      /\ sessionSearch.currentMatchIndex # 0) =>
       PairLess(CurrentMatch(sessionSearch), CurrentMatch(last.pre))

\* goToNextMatch has moved from the first occurrence in one message to the
\* last of several occurrences in an earlier message.
C39_Witness ==
  /\ last.op = "goToNextMatch"
  /\ MatchCount >= 3
  /\ sessionSearch.currentMatchIndex > 0
  /\ CurrentMatch(last.pre).matchIndex = 0
  /\ CurrentMatch(sessionSearch).messageIndex < CurrentMatch(last.pre).messageIndex
  /\ CurrentMatch(sessionSearch).matchCount >= 2
  /\ CurrentMatch(sessionSearch).matchIndex = CurrentMatch(sessionSearch).matchCount - 1

====
